---- MODULE Spec2Model ----
(***************************************************************************)
(* django-reversion (fork jonozzz): the revision manager of                *)
(* src/src/reversion/revisions.py as a state machine.                      *)
(*                                                                         *)
(* State: the thread-local RevisionState of every thread, the              *)
(* ReversionMeta attached to every model instance, the identity keys of    *)
(* the instances, and the persistent store (Revision rows, Version rows,   *)
(* metadata rows).  Every create() is written to the store at once: the    *)
(* code opens no transaction around the commit.                            *)
(*                                                                         *)
(* Names of the source that are bound nowhere are modelled as Python runs  *)
(* them, a NameError at the moment the name is read:                       *)
(*   result_dict  revisions.py:263, the first test of the traversal        *)
(*   created      revisions.py:408, post_save_receiver in an active scope  *)
(***************************************************************************)
EXTENDS Integers, Sequences, FiniteSets, TLC

\* ---------------------------------------------------------------- bounds
MaxDepth == 2
MaxRevisions == 1
MaxMeta == 1
MaxStack == 6

\* ------------------------------------------------------------- constants
\* django.contrib.admin.models action flags, the ACTIONS of models.py
ADDITION == 1
CHANGE == 2
DELETION == 3
\* ReversionMeta.clear: the action of an instance no hook has touched
NO_ACTION == 0
\* follow_relationships, max_recursion = None: no limit
NO_LIMIT == -1

\* --------------------------------------------------------------- domains
Ctx == {"t1", "t2"}
\* The thread of the single-threaded runs.
MainThread == "t1"
\* Instance a is new (no identity key yet) and is the one the runs save and
\* delete; instance b was loaded from the store.
Obj == {"a", "b"}
Saved == {"a"}
Users == {"None", "u1"}
Comments == {"", "c1"}
MetaCls == {"M"}

\* The registered follow-list of each instance: a follows b.
Follow(o) == IF o = "a" THEN {"b"} ELSE {}

\* Errors an operation ends with; "none" is a normal return.
NONE == "none"
RevisionManagementError == "RevisionManagementError"
NameError == "NameError"
ValueError == "ValueError"
AssertionError == "AssertionError"
AttributeError == "AttributeError"
BlockError == "BlockError"
TypeError == "TypeError"

VARIABLES
    st,            \* st[k]: the RevisionState stored under thread-local key k
    meta,          \* meta[o]: the ReversionMeta of instance o (_reversion)
    pk,            \* pk[o]: TRUE when instance o has an identity key
    revisions,     \* the Revision rows, in creation order
    versions,      \* the Version rows
    meta_records,  \* the metadata rows attached to revisions
    deleting,      \* deleting[c]: instances whose delete() was called in c's scope
    saving,        \* saving[c]: the save() calls made in c's scope
    last,          \* the operation that acted last, and how it ended
    walk,          \* one call of follow_relationships, frame by frame
    applied        \* the call made last on rows of the database, and its result

vars == <<st, meta, pk, revisions, versions, meta_records, deleting, saving, last, walk,
          applied>>
db == <<revisions, versions, meta_records>>

\* ------------------------------------------------------------ RevisionState
\* RevisionState.clear: the default state.
clear ==
    [objects |-> {}, dead_objects |-> {}, user |-> "None", comment |-> "",
     depth |-> 0, is_invalid |-> FALSE, meta |-> <<>>]

\* RevisionState(local): the key under which thread c finds its state.
\* (local_shared: a plain object instead of threading.local, one state for all.)
local_shared(c) == "t1"
local(c) == c

\* ReversionMeta.clear.  serialized_data is the set of entries of the payload
\* ('' has none); repr is an attribute the pre-delete hook alone sets.
ReversionMeta == [action |-> NO_ACTION, serialized_data |-> {}, repr |-> "unset"]

\* ------------------------------------------------------------ scope methods
is_active(s) == s.depth > 0

\* (assert_active_never: the test left out.)
assert_active_never(s) == NONE
assert_active(s) == IF is_active(s) THEN NONE ELSE RevisionManagementError

\* RevisionManager.start: one level deeper, nothing else touched.
\* (start_fresh: a start that also takes the invalidation flag back.)
start_fresh(s) == [s EXCEPT !.depth = @ + 1, !.is_invalid = FALSE]
start(s) == [s EXCEPT !.depth = @ + 1]

\* _follow_relationships reads result_dict before anything else (line 263):
\* the name is bound in no scope, so the first object visited raises
\* NameError; map() over an empty object_set calls nothing.
follow_relationships(object_set, max_recursion, inclusive, ancestors) ==
    IF object_set = {}
    THEN [err |-> NONE, result |-> {}]
    ELSE [err |-> NameError, result |-> {}]

add(s, m, obj) ==
    IF assert_active(s) # NONE THEN [s |-> s, err |-> assert_active(s)]
    ELSE IF m[obj].action = DELETION
    THEN LET neighbours == follow_relationships({obj}, 1, FALSE, FALSE)
             dead == s.dead_objects \cup {obj}
         IN  IF neighbours.err # NONE THEN [s |-> s, err |-> neighbours.err]
             ELSE [s |-> [s EXCEPT !.dead_objects = dead,
                                   !.objects = (@ \cup (neighbours.result \ dead)) \ {obj}],
                   err |-> NONE]
    ELSE [s |-> [s EXCEPT !.objects = @ \cup {obj}], err |-> NONE]

set_user(s, user) ==
    IF assert_active(s) # NONE THEN [s |-> s, err |-> assert_active(s)]
    ELSE [s |-> [s EXCEPT !.user = user], err |-> NONE]

get_user(s) ==
    IF assert_active(s) # NONE THEN [ret |-> "-", err |-> assert_active(s)]
    ELSE [ret |-> s.user, err |-> NONE]

set_comment(s, comment) ==
    IF assert_active(s) # NONE THEN [s |-> s, err |-> assert_active(s)]
    ELSE [s |-> [s EXCEPT !.comment = comment], err |-> NONE]

get_comment(s) ==
    IF assert_active(s) # NONE THEN [ret |-> "-", err |-> assert_active(s)]
    ELSE [ret |-> s.comment, err |-> NONE]

add_meta(s, cls) ==
    IF assert_active(s) # NONE THEN [s |-> s, err |-> assert_active(s)]
    ELSE [s |-> [s EXCEPT !.meta = Append(@, cls)], err |-> NONE]

invalidate(s) ==
    IF assert_active(s) # NONE THEN [s |-> s, err |-> assert_active(s)]
    ELSE [s |-> [s EXCEPT !.is_invalid = TRUE], err |-> NONE]

is_invalid(s) == s.is_invalid

\* --------------------------------------------------------------- the commit
\* The persistent store handed to and returned by a commit.
Store(R, V, MR) == [revisions |-> R, versions |-> V, meta_records |-> MR]

\* serializers.serialize over a set of instances, fields= the registered
\* fields: one entry per instance, holding its registered fields.
Serialize(object_set) == {[model |-> o, fields |-> "registered"] : o \in object_set}

\* repr(obj)
Repr(obj) == obj

\* end, line 323: only the call that brings the depth to 0 goes on.
\* (outermost_always: the test left out, every end() goes on.)
outermost_always(s) == TRUE
outermost(s) == s.depth = 0

\* end, line 328: something changed or died, and the scope is not invalid.
\* (should_commit_if_invalid: the flag not read.)
should_commit_if_invalid(s, models, dead_models) ==
    dead_models # {} \/ models # {}
should_commit(s, models, dead_models) ==
    (dead_models # {} \/ models # {}) /\ ~is_invalid(s)

\* obj._meta.proxy: instance bp is of a proxy class of the class of b and has
\* the key of b; every other instance is of a registered class that is no
\* proxy.
meta_proxy(obj) == obj = "bp"
\* parent_cls.objects.get(pk=obj.pk), lines 311-313
parent_cls_get(obj) == "b"

\* end, lines 342-367: the Versions of the live objects.  A proxy instance is
\* passed over (lines 345-346).  The first other object of the loop raises: a
\* Deletion-tagged one ValueError (line 352), any other the NameError of the
\* ancestor traversal (line 356); without such an object nothing is written.
\* The order of a Python set is not fixed, so every object may come first.
live_versions(revision_set, m) ==
    LET snapshot == {obj \in revision_set : ~meta_proxy(obj)}
    IN  IF snapshot = {} THEN {NONE}
        ELSE { IF m[obj].action = DELETION
               THEN ValueError
               ELSE follow_relationships({obj}, NO_LIMIT, TRUE, TRUE).err : obj \in snapshot }

\* end, lines 371-385: the Versions of the dead objects, from the data the
\* pre-delete hook froze.  An object not tagged Deletion fails the assertion
\* (line 373), one whose meta has no repr fails the read of line 378; the
\* objects written before it are whichever the set's order put first.
dead_version(rev, m, obj) ==
    [revision |-> rev, object_id |-> obj, action_flag |-> m[obj].action,
     serialized_data |-> m[obj].serialized_data, object_repr |-> m[obj].repr]

dead_versions(rev, dead_models, m) ==
    LET good == {o \in dead_models : m[o].action = DELETION /\ m[o].repr # "unset"}
        bad == dead_models \ good
    IN  IF bad = {}
        THEN {[written |-> {dead_version(rev, m, o) : o \in good}, err |-> NONE]}
        ELSE {[written |-> {dead_version(rev, m, o) : o \in w},
               err |-> IF m[b].action # DELETION THEN AssertionError ELSE AttributeError]
              : w \in SUBSET good, b \in bad}

\* end, lines 387-388: one metadata row per add_meta.
meta_rows(rev, metas) == {[revision |-> rev, cls |-> metas[i]] : i \in 1..Len(metas)}

\* end, lines 324-388: the body of the try.  Each create() reaches the store
\* when it is called; what was written before an error stays written.  The
\* result is the set of outcomes the iteration orders allow.
commit(s, m, D) ==
    LET dead_models == s.dead_objects
        models == s.objects \ dead_models
        rev == Len(D.revisions) + 1
        D1 == [D EXCEPT !.revisions = Append(@, [user |-> s.user, comment |-> s.comment])]
        closure == follow_relationships(models, NO_LIMIT, TRUE, FALSE)
        revision_set == models \cup (closure.result \ models)
    IN  IF ~should_commit(s, models, dead_models) THEN {[D |-> D, err |-> NONE]}
        ELSE IF closure.err # NONE THEN {[D |-> D1, err |-> closure.err]}
        ELSE IF live_versions(revision_set, m) # {NONE}
        THEN {[D |-> D1, err |-> e] : e \in live_versions(revision_set, m)}
        ELSE { IF dv.err # NONE
               THEN [D |-> [D1 EXCEPT !.versions = @ \cup dv.written], err |-> dv.err]
               ELSE [D |-> [D1 EXCEPT !.versions = @ \cup dv.written,
                                      !.meta_records = @ \cup meta_rows(rev, s.meta)],
                     err |-> NONE]
               : dv \in dead_versions(rev, dead_models, m) }

\* end, lines 389-390: the finally clause.
\* (finally_on_success: the clear() after the try instead of in a finally.)
finally_on_success(s, err) == IF err = NONE THEN clear ELSE s
finally(s, err) == clear

\* RevisionManager.end
end(s, m, D) ==
    IF assert_active(s) # NONE THEN {[s |-> s, D |-> D, err |-> assert_active(s)]}
    ELSE LET s1 == [s EXCEPT !.depth = @ - 1]
         IN  IF ~outermost(s1) THEN {[s |-> s1, D |-> D, err |-> NONE]}
             ELSE {[s |-> finally(s1, c.err), D |-> c.D, err |-> c.err]
                   : c \in commit(s1, m, D)}

\* ------------------------------------------------------------------- hooks
\* pre_save_receiver: the tag follows from the identity key before the save.
pre_save_receiver(m, instance, has_pk) ==
    [m EXCEPT ![instance].action = IF has_pk THEN CHANGE ELSE ADDITION]

\* post_save_receiver: in an active scope the test of line 408 reads the
\* unbound name created.
post_save_receiver(s) == IF is_active(s) THEN NameError ELSE NONE

\* pre_delete_receiver (the second definition, lines 418-434, is the one the
\* class keeps).  copy.copy is shallow: tmp._reversion is the ReversionMeta of
\* the instance itself, so what is written to tmp's meta is written to
\* meta[instance], and tmp equals the instance (same class, same key).
pre_delete_receiver(s, m, instance) ==
    LET m1 == [m EXCEPT ![instance].action = DELETION]
        ancestors_and_self == follow_relationships({instance}, NO_LIMIT, TRUE, TRUE)
        m2 == [m1 EXCEPT ![instance].serialized_data = Serialize(ancestors_and_self.result),
                         ![instance].repr = Repr(instance)]
    IN  IF ancestors_and_self.err # NONE
        THEN [s |-> s, m |-> m1, err |-> ancestors_and_self.err]
        ELSE IF is_active(s)
        THEN [s |-> add(s, m2, instance).s, m |-> m2, err |-> add(s, m2, instance).err]
        ELSE [s |-> s, m |-> m2, err |-> NONE]

\* ---------------------------------------------------- with-block, decorator
\* __exit__(exc_type, ...): exc is TRUE when the block raised.  Returning
\* False lets the block's own error go on to the caller.
\* (__exit__without_invalidate: exc_type not looked at.)
__exit__without_invalidate(s, m, D, exc) ==
    {[s |-> e.s, D |-> e.D,
      err |-> IF e.err # NONE THEN e.err ELSE IF exc THEN BlockError ELSE NONE]
     : e \in end(s, m, D)}
__exit__(s, m, D, exc) ==
    LET i == IF exc THEN invalidate(s) ELSE [s |-> s, err |-> NONE]
    IN  IF i.err # NONE THEN {[s |-> s, D |-> D, err |-> i.err]}
        ELSE {[s |-> e.s, D |-> e.D,
               err |-> IF e.err # NONE THEN e.err ELSE IF exc THEN BlockError ELSE NONE]
              : e \in end(i.s, m, D)}

\* _create_on_success after func has returned or raised: the except clause
\* invalidates and re-raises, the finally clause ends in every case.
_create_on_success(s, m, D, exc) ==
    LET i == IF exc THEN invalidate(s) ELSE [s |-> s, err |-> NONE]
    IN  {[s |-> e.s, D |-> e.D,
          err |-> IF e.err # NONE THEN e.err
                  ELSE IF i.err # NONE THEN i.err
                  ELSE IF exc THEN BlockError ELSE NONE]
         : e \in end(i.s, m, D)}

\* ------------------------------------------- follow_relationships, by frame
\* One call of follow_relationships, a frame of _follow_relationships at a
\* time.  The instances of the call are the nodes of an object graph; every
\* class is registered.
Node == {"p", "q", "r"}
\* What reading a relationship gives when it is not a model instance: None
\* (also after ObjectDoesNotExist, line 290), or a value that is neither a
\* model, a manager nor None (line 305).
NoneValue == "None"
OtherValue == "other"

Links(ofp, ofq, ofr) ==
    [n \in Node |-> IF n = "p" THEN ofp ELSE IF n = "q" THEN ofq ELSE ofr]

\* An object graph.  follow[n]: what the registered follow-list of n yields,
\* in the order of the list, a manager's related.all() one after the other;
\* parents[n]: what the parent links of n's class yield (multi-table
\* inheritance); nokey: the instances whose pk is None; proxy[n]: the
\* instance of the registered parent class of a proxy instance n.
Graph(follow, parents, nokey, proxy) ==
    [follow |-> follow, parents |-> parents, nokey |-> nokey, proxy |-> proxy]

NoLinks == Links(<<>>, <<>>, <<>>)
NoProxy == Links(NoneValue, NoneValue, NoneValue)
\* p follows q, q follows r
Chain == Graph(Links(<<"q">>, <<"r">>, <<>>), NoLinks, {}, NoProxy)
\* p follows q, q follows p
Cycle == Graph(Links(<<"q">>, <<"p">>, <<>>), NoLinks, {}, NoProxy)
\* p follows itself and q, q follows r, r follows p
SelfLoop == Graph(Links(<<"p", "q">>, <<"r">>, <<"p">>), NoLinks, {}, NoProxy)
\* r is followed by p and by q; one relationship of r is empty
Shared == Graph(Links(<<"q", "r">>, <<"r">>, <<NoneValue>>), NoLinks, {}, NoProxy)
\* q inherits from p, r is a proxy of q and has a relationship that yields
\* neither a model nor a manager
Inherit == Graph(Links(<<>>, <<"p">>, <<OtherValue>>), Links(<<>>, <<"p">>, <<>>),
                 {}, Links(NoneValue, NoneValue, "q"))
\* r has no key yet
Orphan == Graph(Links(<<"r">>, <<"p">>, <<"q">>), NoLinks, {"r"}, NoProxy)
Graphs == {Chain, Cycle, SelfLoop, Shared, Inherit, Orphan}

\* The orders in which map() can receive the objects of a set.
Orders(S) ==
    {s \in UNION {[1..k -> S] : k \in 0..Cardinality(S)} :
        \A i, j \in 1..Len(s) : i # j => s[i] # s[j]}

MaxRecursions == {NO_LIMIT, 0, 1}
\* The tags the instances carry when the call is made.
Tags == {[n \in Node |-> NO_ACTION], [n \in Node |-> IF n = "q" THEN DELETION ELSE CHANGE]}

\* No call made yet.
Idle ==
    [status |-> "idle", graph |-> Chain, object_set |-> <<>>,
     max_recursion |-> NO_LIMIT, inclusive |-> TRUE, ancestors |-> FALSE,
     stack |-> <<>>, result_set |-> {}, action |-> [n \in Node |-> NO_ACTION],
     visits |-> [n \in Node |-> 0], err |-> NONE, first |-> <<>>]

\* Line 263, `obj in result_dict`: the name is bound in no scope (the set the
\* function fills is result_set), so reading it raises NameError.
\* (obj_in_result_set: the name read as result_set.  obj_in_nothing: the test
\* left out.)
obj_in_result_set(obj, result_set) == IF obj \in result_set THEN "True" ELSE "False"
obj_in_nothing(obj, result_set) == "False"
obj_in_result_dict(obj, result_set) == NameError

\* Lines 268-314: what a frame for obj at this level goes on to call, in
\* order.  notify marks the calls of lines 291-304, before which the related
\* instance is tagged Change; the proxy's parent (lines 310-314) is called
\* without it and whatever max_recursion is.
to_follow(w, obj, level) ==
    LET names == IF w.ancestors THEN w.graph.parents[obj] ELSE w.graph.follow[obj]
        related == IF w.max_recursion # NO_LIMIT /\ level >= w.max_recursion
                   THEN <<>>
                   ELSE [i \in 1..Len(names) |-> [obj |-> names[i], notify |-> TRUE]]
        parent_obj == IF w.graph.proxy[obj] # NoneValue
                      THEN <<[obj |-> w.graph.proxy[obj], notify |-> FALSE]>>
                      ELSE <<>>
    IN  related \o parent_obj

\* _follow_relationships(obj, level), lines 261-266: the test, the addition
\* to result_set, and the frame that will follow the relationships.
_follow_relationships(w, obj, level) ==
    LET seen == obj_in_result_dict(obj, w.result_set)
    IN  IF seen = NameError
        THEN [w EXCEPT !.status = "raised", !.err = NameError, !.stack = <<>>]
        ELSE IF seen = "True" \/ obj \in w.graph.nokey
        THEN w
        ELSE [w EXCEPT !.result_set = IF w.inclusive \/ level > 0 THEN @ \cup {obj} ELSE @,
                       !.visits[obj] = @ + 1,
                       !.stack = Append(@, [obj |-> obj, level |-> level,
                                            todo |-> to_follow(w, obj, level)])]

\* ----------------------------------------------------------------- actions
\* What is recorded of an operation: its name, thread, argument, the error
\* it ended with, the value it returned, and the depth, flag and emptiness of
\* the thread's state when it was called.
Did(op, c, arg, err, ret, s) ==
    [op |-> op, ctx |-> c, arg |-> arg, err |-> err, ret |-> ret,
     depth |-> s.depth, invalid |-> s.is_invalid,
     changed |-> (s.objects \cup s.dead_objects) # {}]

Init ==
    /\ st = [k \in Ctx |-> clear]
    /\ meta = [o \in Obj |-> ReversionMeta]
    /\ pk = [o \in Obj |-> o \notin Saved]
    /\ revisions = <<>>
    /\ versions = {}
    /\ meta_records = {}
    /\ deleting = [c \in Ctx |-> {}]
    /\ saving = [c \in Ctx |-> {}]
    /\ last = Did("init", "t1", "-", NONE, "-", clear)
    /\ walk = Idle
    /\ applied = [op |-> "none"]

Start(c) ==
    /\ st[local(c)].depth < MaxDepth
    /\ st' = [st EXCEPT ![local(c)] = start(@)]
    /\ last' = Did("start", c, "-", NONE, "-", st[local(c)])
    /\ UNCHANGED <<meta, pk, revisions, versions, meta_records, deleting, walk, saving, applied>>

\* __enter__
Enter(c) ==
    /\ st[local(c)].depth < MaxDepth
    /\ st' = [st EXCEPT ![local(c)] = start(@)]
    /\ last' = Did("__enter__", c, "-", NONE, "-", st[local(c)])
    /\ UNCHANGED <<meta, pk, revisions, versions, meta_records, deleting, walk, saving, applied>>

\* _create_on_success, line 452: the call of a decorated function begins.
Call(c) ==
    /\ st[local(c)].depth < MaxDepth
    /\ st' = [st EXCEPT ![local(c)] = start(@)]
    /\ last' = Did("call", c, "-", NONE, "-", st[local(c)])
    /\ UNCHANGED <<meta, pk, revisions, versions, meta_records, deleting, walk, saving, applied>>

IsActive(c) ==
    /\ last' = Did("is_active", c, "-", NONE,
                   IF is_active(st[local(c)]) THEN "True" ELSE "False", st[local(c)])
    /\ UNCHANGED <<st, meta, pk, revisions, versions, meta_records, deleting, walk, saving, applied>>

Add(c, obj) ==
    LET r == add(st[local(c)], meta, obj)
    IN  /\ st' = [st EXCEPT ![local(c)] = r.s]
        /\ last' = Did("add", c, obj, r.err, "-", st[local(c)])
        /\ UNCHANGED <<meta, pk, revisions, versions, meta_records, deleting, walk, saving, applied>>

SetUser(c, user) ==
    LET r == set_user(st[local(c)], user)
    IN  /\ st' = [st EXCEPT ![local(c)] = r.s]
        /\ last' = Did("set_user", c, "-", r.err, "-", st[local(c)])
        /\ UNCHANGED <<meta, pk, revisions, versions, meta_records, deleting, walk, saving, applied>>

GetUser(c) ==
    LET r == get_user(st[local(c)])
    IN  /\ last' = Did("get_user", c, "-", r.err, r.ret, st[local(c)])
        /\ UNCHANGED <<st, meta, pk, revisions, versions, meta_records, deleting, walk, saving, applied>>

SetComment(c, comment) ==
    LET r == set_comment(st[local(c)], comment)
    IN  /\ st' = [st EXCEPT ![local(c)] = r.s]
        /\ last' = Did("set_comment", c, "-", r.err, "-", st[local(c)])
        /\ UNCHANGED <<meta, pk, revisions, versions, meta_records, deleting, walk, saving, applied>>

GetComment(c) ==
    LET r == get_comment(st[local(c)])
    IN  /\ last' = Did("get_comment", c, "-", r.err, r.ret, st[local(c)])
        /\ UNCHANGED <<st, meta, pk, revisions, versions, meta_records, deleting, walk, saving, applied>>

AddMeta(c, cls) ==
    LET r == add_meta(st[local(c)], cls)
    IN  /\ Len(st[local(c)].meta) < MaxMeta
        /\ st' = [st EXCEPT ![local(c)] = r.s]
        /\ last' = Did("add_meta", c, "-", r.err, "-", st[local(c)])
        /\ UNCHANGED <<meta, pk, revisions, versions, meta_records, deleting, walk, saving, applied>>

Invalidate(c) ==
    LET r == invalidate(st[local(c)])
    IN  /\ st' = [st EXCEPT ![local(c)] = r.s]
        /\ last' = Did("invalidate", c, "-", r.err, "-", st[local(c)])
        /\ UNCHANGED <<meta, pk, revisions, versions, meta_records, deleting, walk, saving, applied>>

\* The end of a scope, by end(), __exit__ or the decorator: out is one of
\* the outcomes the method allows.
Ended(op, c, arg, out) ==
    /\ Len(out.D.revisions) <= MaxRevisions
    /\ st' = [st EXCEPT ![local(c)] = out.s]
    /\ revisions' = out.D.revisions
    /\ versions' = out.D.versions
    /\ meta_records' = out.D.meta_records
    /\ deleting' = [deleting EXCEPT ![c] = IF out.s.depth = 0 THEN {} ELSE @]
    /\ saving' = [saving EXCEPT ![c] = IF out.s.depth = 0 THEN {} ELSE @]
    /\ last' = Did(op, c, arg, out.err, "-", st[local(c)])
    /\ UNCHANGED <<meta, pk, walk, applied>>

End(c) ==
    \E out \in end(st[local(c)], meta, Store(revisions, versions, meta_records)) :
        Ended("end", c, "-", out)

\* __exit__ at the end of a with-block that was entered.
Exit(c, exc) ==
    /\ is_active(st[local(c)])
    /\ \E out \in __exit__(st[local(c)], meta, Store(revisions, versions, meta_records), exc) :
           Ended("__exit__", c, IF exc THEN "raised" ELSE "returned", out)

\* _create_on_success once func has returned or raised.
Return(c, exc) ==
    /\ is_active(st[local(c)])
    /\ \E out \in _create_on_success(st[local(c)], meta,
                                     Store(revisions, versions, meta_records), exc) :
           Ended("create_on_success", c, IF exc THEN "raised" ELSE "returned", out)

\* instance.save(): the pre-save hook, the write that gives the instance its
\* key, the post-save hook.
save(c, obj) ==
    /\ meta' = pre_save_receiver(meta, obj, pk[obj])
    /\ pk' = [pk EXCEPT ![obj] = TRUE]
    /\ last' = Did("save", c, obj, post_save_receiver(st[local(c)]), "-", st[local(c)])
    /\ UNCHANGED <<st, revisions, versions, meta_records, deleting, walk, applied>>

Save(c, obj) == save(c, obj) /\ UNCHANGED saving

\* The same call, with a note of the saves made inside a scope and of
\* whether each created the instance.
SaveNoted(c, obj) ==
    /\ save(c, obj)
    /\ saving' = [saving EXCEPT ![c] = IF is_active(st[local(c)])
                                       THEN @ \cup {[obj |-> obj, created |-> ~pk[obj]]}
                                       ELSE @]

\* instance.delete() of a saved instance: the pre-delete hook runs before
\* the row is removed, and an error of the hook stops the delete.
Delete(c, obj) ==
    LET r == pre_delete_receiver(st[local(c)], meta, obj)
    IN  /\ pk[obj]
        /\ meta' = r.m
        /\ st' = [st EXCEPT ![local(c)] = r.s]
        /\ pk' = [pk EXCEPT ![obj] = IF r.err = NONE THEN FALSE ELSE @]
        /\ deleting' = [deleting EXCEPT ![c] = IF is_active(st[local(c)]) THEN @ \cup {obj} ELSE @]
        /\ last' = Did("delete", c, obj, r.err, "-", st[local(c)])
        /\ UNCHANGED <<revisions, versions, meta_records, walk, saving, applied>>

Next ==
    \E c \in {MainThread} :
        \/ Start(c)
        \/ Enter(c)
        \/ Call(c)
        \/ IsActive(c)
        \/ \E obj \in Obj : Add(c, obj)
        \/ \E user \in Users : SetUser(c, user)
        \/ GetUser(c)
        \/ \E comment \in Comments : SetComment(c, comment)
        \/ GetComment(c)
        \/ \E cls \in MetaCls : AddMeta(c, cls)
        \/ Invalidate(c)
        \/ End(c)
        \/ \E exc \in BOOLEAN : Exit(c, exc)
        \/ \E exc \in BOOLEAN : Return(c, exc)
        \/ \E obj \in Saved : Save(c, obj)
        \/ \E obj \in Saved : Delete(c, obj)

Spec == Init /\ [][Next]_vars

\* Two threads on the shared manager, every interleaving of the scope
\* operations.  Thread t1 adds instance a and sets the user; thread t2 adds
\* instance b, sets the comment and adds metadata.
ObjOf(c) == IF c = "t1" THEN {"a"} ELSE {"b"}
UsersOf(c) == IF c = "t1" THEN {"u1"} ELSE {}
CommentsOf(c) == IF c = "t1" THEN {} ELSE {"c1"}
MetaOf(c) == IF c = "t1" THEN {} ELSE MetaCls

NextThreads ==
    \E c \in Ctx :
        \/ Start(c)
        \/ \E obj \in ObjOf(c) : Add(c, obj)
        \/ \E user \in UsersOf(c) : SetUser(c, user)
        \/ \E comment \in CommentsOf(c) : SetComment(c, comment)
        \/ \E cls \in MetaOf(c) : AddMeta(c, cls)
        \/ Invalidate(c)
        \/ End(c)

SpecThreads == Init /\ [][NextThreads]_vars

\* One thread that saves instances inside and outside its scopes: instance a,
\* which is new and follows b, and instance b, which exists and follows
\* nothing.
NextSave ==
    \E c \in {MainThread} :
        \/ Start(c)
        \/ \E obj \in Obj : SaveNoted(c, obj)
        \/ \E obj \in Obj : Add(c, obj)
        \/ Invalidate(c)
        \/ End(c)

SpecSave == Init /\ [][NextSave]_vars

\* One thread whose scopes change instance b and the proxy instance bp of the
\* same row.
ProxyObj == {"b", "bp"}
InitProxy ==
    /\ st = [k \in Ctx |-> clear]
    /\ meta = [o \in ProxyObj |-> ReversionMeta]
    /\ pk = [o \in ProxyObj |-> TRUE]
    /\ revisions = <<>>
    /\ versions = {}
    /\ meta_records = {}
    /\ deleting = [c \in Ctx |-> {}]
    /\ saving = [c \in Ctx |-> {}]
    /\ last = Did("init", "t1", "-", NONE, "-", clear)
    /\ walk = Idle
    /\ applied = [op |-> "none"]
NextProxy ==
    \E c \in {MainThread} :
        \/ Start(c)
        \/ \E obj \in ProxyObj : Add(c, obj)
        \/ \E obj \in ProxyObj : Save(c, obj)
        \/ \E user \in Users : SetUser(c, user)
        \/ Invalidate(c)
        \/ End(c)
SpecProxy == InitProxy /\ [][NextProxy]_vars

\* follow_relationships(object_set, max_recursion, inclusive, ancestors):
\* line 260 and the map() of line 315, about to call _follow_relationships
\* for each object at level 0.  Every call starts from a result_set of its
\* own, so a run holds one call.
FollowCall(g, object_set, max_recursion, inclusive, ancestors, tags) ==
    /\ walk.status = "idle"
    /\ walk' = [status |-> "running", graph |-> g, object_set |-> object_set,
                max_recursion |-> max_recursion, inclusive |-> inclusive,
                ancestors |-> ancestors,
                stack |-> <<[obj |-> "map", level |-> -1,
                             todo |-> [i \in 1..Len(object_set) |->
                                          [obj |-> object_set[i], notify |-> FALSE]]]>>,
                result_set |-> {}, action |-> tags,
                visits |-> [n \in Node |-> 0], err |-> NONE, first |-> <<>>]
    /\ UNCHANGED <<st, meta, pk, revisions, versions, meta_records, deleting, last, saving, applied>>

\* The same call made once more when the first has ended, with the same
\* arguments, on the instances as the first call left them (their tags); the
\* store is not touched in between.  first keeps how the first call ended.
FollowAgain ==
    /\ walk.status \in {"returned", "raised"}
    /\ walk.first = <<>>
    /\ walk' = [walk EXCEPT
                   !.status = "running",
                   !.stack = <<[obj |-> "map", level |-> -1,
                                todo |-> [i \in 1..Len(walk.object_set) |->
                                             [obj |-> walk.object_set[i], notify |-> FALSE]]]>>,
                   !.result_set = {},
                   !.visits = [n \in Node |-> 0],
                   !.err = NONE,
                   !.first = <<[status |-> walk.status, result_set |-> walk.result_set,
                                err |-> walk.err]>>]
    /\ UNCHANGED <<st, meta, pk, revisions, versions, meta_records, deleting, last, saving, applied>>

\* The frame on top makes its next call: None is passed over, a value of
\* another kind raises TypeError (line 306), an instance is tagged and
\* _follow_relationships is entered for it.
FollowVisit ==
    /\ walk.status = "running"
    /\ Len(walk.stack) < MaxStack
    /\ LET top == walk.stack[Len(walk.stack)]
           head == Head(top.todo)
           w1 == [walk EXCEPT !.stack[Len(walk.stack)].todo = Tail(@)]
           w2 == [w1 EXCEPT !.action[head.obj] =
                                IF head.notify /\ @ # DELETION THEN CHANGE ELSE @]
       IN  /\ top.todo # <<>>
           /\ walk' = IF head.obj = NoneValue THEN w1
                      ELSE IF head.obj = OtherValue
                      THEN [w1 EXCEPT !.status = "raised", !.err = TypeError, !.stack = <<>>]
                      ELSE _follow_relationships(w2, head.obj, top.level + 1)
    /\ UNCHANGED <<st, meta, pk, revisions, versions, meta_records, deleting, last, saving, applied>>

\* The frame on top has no call left and returns; when it is the map() of
\* line 315, follow_relationships returns result_set.
FollowReturn ==
    /\ walk.status = "running"
    /\ walk.stack[Len(walk.stack)].todo = <<>>
    /\ walk' = [walk EXCEPT !.stack = SubSeq(@, 1, Len(@) - 1),
                            !.status = IF Len(walk.stack) = 1 THEN "returned" ELSE @]
    /\ UNCHANGED <<st, meta, pk, revisions, versions, meta_records, deleting, last, saving, applied>>

NextFollow ==
    \/ /\ walk.status = "idle"
       /\ \E g \in Graphs, S \in SUBSET Node, max_recursion \in MaxRecursions,
             inclusive \in BOOLEAN, ancestors \in BOOLEAN, tags \in Tags :
              \E object_set \in Orders(S) :
                  FollowCall(g, object_set, max_recursion, inclusive, ancestors, tags)
    \/ FollowAgain
    \/ FollowVisit
    \/ FollowReturn

\* A call that has begun goes on: the thread that runs it is not stopped.
SpecFollow == Init /\ [][NextFollow]_vars /\ WF_vars(FollowVisit \/ FollowReturn)

\* --------------------------------------------------------- models.py: revert
\* The functions of models.py and managers.py work on rows of the database
\* they are handed; the rows are inputs.
\*
\* A model with one registered field, title, and one field left out of the
\* registered fields, note.  A field the payload does not name gets the
\* field's default when the payload is deserialized.
Vals == {"", "x"}
DefaultNote == ""
\* A row of the live store, and what the store holds of an instance that has
\* no row.
Rows == [there : {TRUE}, title : Vals, note : Vals]
Gone == [there |-> FALSE, title |-> "", note |-> ""]
LiveStores == [Obj -> Rows \cup {Gone}]

\* revisions.py lines 357-360: the payload of an instance, its key and its
\* registered fields.
serialize(obj, row) == [pk |-> obj, title |-> row.title]

\* The Version rows end() writes for the objects of covered when the live
\* store is at_commit: an object that is there gets its payload (lines
\* 355-367) and the tag the save hooks gave it; one that is gone was deleted
\* in the scope and gets the payload frozen before the delete (lines 377-385).
Snapshots(at_commit, covered) ==
    { { IF at_commit[o] = Gone
        THEN [object_id |-> o, action_flag |-> DELETION,
              serialized_data |-> serialize(o, [there |-> TRUE, title |-> frozen[o],
                                                note |-> DefaultNote])]
        ELSE [object_id |-> o, action_flag |-> tag[o],
              serialized_data |-> serialize(o, at_commit[o])]
        : o \in covered }
      : frozen \in [covered -> Vals], tag \in [covered -> {ADDITION, CHANGE}] }

\* Version.get_object_version, for a class with no parents: the payload
\* holds one object, which is the head.
get_object_version(version) ==
    [pk |-> version.serialized_data.pk,
     object |-> [there |-> TRUE, title |-> version.serialized_data.title,
                 note |-> DefaultNote]]

\* Version.revert: the deserialized object is saved, whatever the tag.
\* (Version_revert_unless_deleted: a Deletion Version passed over.)
Version_revert_unless_deleted(version, live) ==
    IF version.action_flag = DELETION THEN live
    ELSE [live EXCEPT ![get_object_version(version).pk] = get_object_version(version).object]
Version_revert(version, live) ==
    [live EXCEPT ![get_object_version(version).pk] = get_object_version(version).object]

\* Revision.revert, lines 38-40: every Version of the revision is reverted.
RECURSIVE revert_versions(_, _)
revert_versions(version_set, live) ==
    IF version_set = {} THEN live
    ELSE LET version == CHOOSE v \in version_set : TRUE
         IN  revert_versions(version_set \ {version}, Version_revert(version, live))

\* Revision.revert(delete): with delete, the objects now related to the
\* reverted ones are looked up with follow_relationships (line 46) to delete
\* the ones the revision does not hold.
Revision_revert(version_set, live, delete) ==
    LET reverted == revert_versions(version_set, live)
        old_revision_set == {v.object_id : v \in version_set}
        current_revision_set == follow_relationships(old_revision_set, NO_LIMIT, TRUE, FALSE)
    IN  IF ~delete THEN [live |-> reverted, err |-> NONE]
        ELSE IF current_revision_set.err # NONE
        THEN [live |-> reverted, err |-> current_revision_set.err]
        ELSE [live |-> [o \in Obj |-> IF o \in current_revision_set.result \ old_revision_set
                                       THEN Gone ELSE reverted[o]],
              err |-> NONE]

\* revision.revert(delete) on a Revision whose Versions were written when the
\* live store was at_commit, the live store now being live.
Revert(at_commit, version_set, live, delete) ==
    /\ applied.op = "none"
    /\ applied' = [op |-> "revert", at_commit |-> at_commit, version_set |-> version_set,
                   live |-> live, delete |-> delete,
                   out |-> Revision_revert(version_set, live, delete)]
    /\ UNCHANGED <<st, meta, pk, revisions, versions, meta_records, deleting, saving,
                   last, walk>>

NextRevert ==
    /\ applied.op = "none"
    /\ \E at_commit \in LiveStores, covered \in SUBSET Obj, live \in LiveStores,
          delete \in BOOLEAN :
           \E version_set \in Snapshots(at_commit, covered) :
               Revert(at_commit, version_set, live, delete)

SpecRevert == Init /\ [][NextRevert]_vars

\* ---------------------------------------------------- managers.py: diff_vers
\* Python values of the fields of a deserialized object: None, a string, an
\* int, a datetime (its whole second and its microseconds), and the
\* object_repr of a Version.
PyNone == [kind |-> "None", a |-> "", b |-> 0]
PyStr(s) == [kind |-> "str", a |-> s, b |-> 0]
PyInt(n) == [kind |-> "int", a |-> "", b |-> n]
Datetime(second, microsecond) == [kind |-> "datetime", a |-> second, b |-> microsecond]
object_repr(object_id) == [kind |-> "repr", a |-> "", b |-> object_id]

\* bool(value)
\* (truth_unless_None: `is not None` in the place of the truth value.)
truth_unless_None(value) == value.kind # "None"
truth(value) ==
    CASE value.kind = "None" -> FALSE
      [] value.kind = "str" -> value.a # ""
      [] value.kind = "int" -> value.b # 0
      [] OTHER -> TRUE

\* The fields of the model: its key, a text field, an integer field, a
\* datetime field and a foreign key to another registered model (not User).
\* No field has choices and none is many-to-many.
FieldVals ==
    [id |-> {PyInt(1)},
     title |-> {PyNone, PyStr(""), PyStr("x")},
     count |-> {PyNone, PyInt(0), PyInt(2)},
     when |-> {PyNone, Datetime("s1", 0), Datetime("s1", 5), Datetime("s2", 0)},
     owner |-> {PyNone, PyInt(7), PyInt(8)}]
Objects == [id : FieldVals.id, title : FieldVals.title, count : FieldVals.count,
            when : FieldVals.when, owner : FieldVals.owner]
primary_key(field) == field = "id"
rel(field) == field = "owner"

\* revision.get_registration_info(o1.object.__class__).fields
RegisteredFields == {<<"id", "title", "count", "when", "owner">>, <<"when", "id", "title">>}
\* The keys of the related model that have a Version in v1's revision.
RelatedVersions == {{}, {7}}

\* diff_vers, lines 22-83: the body of the loop, for one field.  v2 is <<>>
\* for None, else holds the version; o1.object and o2.object are the payloads
\* deserialized.
\* (field_diff_if_changed: the test of a Change applied to every tag.)
field_diff_if_changed(v1, v2, field, related) ==
    LET new_value == v1.serialized_data[field]
        old_value == IF v2 # <<>> THEN v2[1].serialized_data[field] ELSE PyNone
    IN  IF primary_key(field) THEN <<>>
        ELSE IF (truth(new_value) \/ truth(old_value)) /\ new_value # old_value
        THEN << <<field, new_value, old_value>> >>
        ELSE <<>>
field_diff(v1, v2, field, related) ==
    LET new_value == v1.serialized_data[field]
        old_value == IF v2 # <<>> THEN v2[1].serialized_data[field] ELSE PyNone
        shown == IF rel(field) /\ new_value.kind = "int" /\ new_value.b \in related
                 THEN object_repr(new_value.b)
                 ELSE new_value
    IN  IF primary_key(field) THEN <<>>
        ELSE IF \/ /\ v1.action_flag = CHANGE
                   /\ truth(new_value) \/ truth(old_value)
                   /\ new_value # old_value
                \/ v1.action_flag \in {ADDITION, DELETION}
        THEN IF /\ new_value.kind = "datetime" /\ old_value.kind = "datetime"
                /\ new_value.a = old_value.a
             THEN <<>>
             ELSE << <<field, shown, old_value>> >>
        ELSE <<>>

\* diff_vers(v1, v2): the tuples of the registered fields, in their order.
RECURSIVE diff_fields(_, _, _, _)
diff_fields(v1, v2, registered_fields, related) ==
    IF registered_fields = <<>> THEN <<>>
    ELSE field_diff(v1, v2, Head(registered_fields), related)
           \o diff_fields(v1, v2, Tail(registered_fields), related)

diff_vers(v1, v2, registered_fields, related) ==
    diff_fields(v1, v2, registered_fields, related)

\* The objects that differ from object in one field at most.
Variants(object) ==
    {object} \cup UNION {{[object EXCEPT ![f] = x] : x \in FieldVals[f]}
                         : f \in {"title", "count", "when", "owner"}}

DiffVers(v1, v2, registered_fields, related) ==
    /\ applied.op = "none"
    /\ applied' = [op |-> "diff_vers", v1 |-> v1, v2 |-> v2,
                   registered_fields |-> registered_fields, related |-> related,
                   out |-> diff_vers(v1, v2, registered_fields, related)]
    /\ UNCHANGED <<st, meta, pk, revisions, versions, meta_records, deleting, saving,
                   last, walk>>

NextDiffVers ==
    /\ applied.op = "none"
    /\ \E object \in Objects, action_flag \in {ADDITION, CHANGE, DELETION},
          registered_fields \in RegisteredFields, related \in RelatedVersions :
           \E v2 \in {<<>>} \cup {<<[action_flag |-> flag, serialized_data |-> previous]>>
                                  : flag \in {ADDITION, CHANGE}, previous \in Variants(object)} :
               DiffVers([action_flag |-> action_flag, serialized_data |-> object], v2,
                        registered_fields, related)

SpecDiffVers == Init /\ [][NextDiffVers]_vars

\* ------------------------------- Version.get_object_version, inherited models
\* A model child that inherits (multi-table) from a model parent.  The
\* payload of a Version of a child holds two fragments, one of each class, in
\* the order the serializer was handed them; the payload of a Version of a
\* parent holds one.
FragVals == {"", "x", "y"}
Keys == {7, 8}
\* The default of a text field, and the value of id before the row is read.
DefaultField == ""
NoKey == 0
ParentFragments ==
    {[model |-> "parent", pk |-> k, fields |-> [title |-> title, note |-> note]]
        : k \in Keys, title \in FragVals, note \in FragVals}
ChildFragments(k) ==
    {[model |-> "child", pk |-> k, fields |-> [extra |-> extra]] : extra \in FragVals}
Payloads ==
    {<<parent>> : parent \in ParentFragments}
    \cup UNION {UNION {{<<parent, child>>, <<child, parent>>}
                       : child \in ChildFragments(parent.pk)}
                : parent \in ParentFragments}
\* len(x.object._meta.parents.keys())
meta_parents(model) == IF model = "child" THEN 1 ELSE 0
\* serializers.deserialize, for one fragment: an instance of the fragment's
\* class, whose __dict__ has every field of the class, the ones the fragment
\* does not name (the inherited ones) at their default.
deserialize(fragment) ==
    IF fragment.model = "parent"
    THEN [model |-> "parent",
          dict |-> [id |-> fragment.pk, title |-> fragment.fields.title,
                    note |-> fragment.fields.note]]
    ELSE [model |-> "child",
          dict |-> [id |-> NoKey, title |-> DefaultField, note |-> DefaultField,
                    parent_ptr_id |-> fragment.pk, extra |-> fragment.fields.extra]]
\* dict.update
update(d, other) ==
    [k \in DOMAIN d \cup DOMAIN other |-> IF k \in DOMAIN other THEN other[k] ELSE d[k]]
\* lines 106-107: list.sort with cmp(len(y...parents), len(x...parents)), which
\* puts the object with more parents first and keeps the order of equals.
\* (sort_ascending: the arguments of cmp exchanged.)
RECURSIVE sort_ascending(_, _)
sort_ascending(do, n) ==
    IF n < 0 THEN <<>>
    ELSE sort_ascending(do, n - 1)
         \o SelectSeq(do, LAMBDA dobj : meta_parents(dobj.model) = n)
RECURSIVE sort(_, _)
sort(do, n) ==
    IF n < 0 THEN <<>>
    ELSE SelectSeq(do, LAMBDA dobj : meta_parents(dobj.model) = n) \o sort(do, n - 1)
\* lines 109-114: head is the first object, the __dict__ of each of the others
\* is written over it in turn.
RECURSIVE update_head(_, _)
update_head(head, rest) ==
    IF rest = <<>> THEN head
    ELSE update_head([head EXCEPT !.dict = update(@, Head(rest).dict)], Tail(rest))
\* Version.get_object_version for the payload data
object_version(data) ==
    LET do == sort([i \in 1..Len(data) |-> deserialize(data[i])], Len(data))
    IN  update_head(do[1], Tail(do))

GetObjectVersion(data) ==
    /\ applied.op = "none"
    /\ applied' = [op |-> "get_object_version", data |-> data, out |-> object_version(data)]
    /\ UNCHANGED <<st, meta, pk, revisions, versions, meta_records, deleting, saving,
                   last, walk>>
NextObjectVersion ==
    /\ applied.op = "none"
    /\ \E data \in Payloads : GetObjectVersion(data)
SpecObjectVersion == Init /\ [][NextObjectVersion]_vars

\* ------------------------------------------- VersionManager.diff (managers.py)
\* The Version rows are inputs here as well: a history is the sequence of the
\* committed revisions, oldest first, and a revision tells for each logical
\* object whether it holds a Version of it and with which tag.
MaxHistory == 3
\* The logical objects (identity key and content type), listed in the order of
\* ('object_id', 'content_type__id').  Content type 2 is a model that inherits
\* from the model of content type 1 (multi-table), so the two objects of key 1
\* are the two parts of one instance.
Logical == << [object_id |-> 1, content_type_id |-> 1],
              [object_id |-> 1, content_type_id |-> 2],
              [object_id |-> 2, content_type_id |-> 1] >>
\* obj._meta.get_parent_list(), as content types
get_parent_list(content_type_id) == IF content_type_id = 2 THEN {1} ELSE {}
\* What a revision holds of one object: nothing, or a Version with this tag;
\* of the inheriting part the histories hold Change Versions only.
Tagged(i) == IF Logical[i].content_type_id = 2 THEN {NO_ACTION, CHANGE}
             ELSE {NO_ACTION, ADDITION, CHANGE}
RevisionContents ==
    {r \in [1..Len(Logical) -> {NO_ACTION, ADDITION, CHANGE}] :
        /\ \A i \in DOMAIN r : r[i] \in Tagged(i)
        /\ \E i \in DOMAIN r : r[i] # NO_ACTION}
Histories == UNION {[1..n -> RevisionContents] : n \in 1..MaxHistory}
\* The payload of a Version: an added object has title 'x', a changed one 'y'.
Payload(object_id, action_flag) ==
    [id |-> PyInt(object_id),
     title |-> IF action_flag = ADDITION THEN PyStr("x") ELSE PyStr("y"),
     count |-> PyInt(0), when |-> PyNone, owner |-> PyNone]
\* The rows one revision adds to the Version table, without their pk.
RECURSIVE version_set(_, _, _)
version_set(history, revision_id, i) ==
    IF i > Len(Logical) THEN <<>>
    ELSE (IF history[revision_id][i] = NO_ACTION THEN <<>>
          ELSE << [revision_id |-> revision_id,
                   object_id |-> Logical[i].object_id,
                   content_type_id |-> Logical[i].content_type_id,
                   action_flag |-> history[revision_id][i],
                   serialized_data |-> Payload(Logical[i].object_id,
                                               history[revision_id][i])] >>)
         \o version_set(history, revision_id, i + 1)
RECURSIVE all_rows(_, _)
all_rows(history, revision_id) ==
    IF revision_id > Len(history) THEN <<>>
    ELSE version_set(history, revision_id, 1) \o all_rows(history, revision_id + 1)
\* The Version table: pk is the position, in the order of creation.
Version(history) ==
    LET rows == all_rows(history, 1)
    IN  [n \in 1..Len(rows) |->
            [pk |-> n, revision_id |-> rows[n].revision_id,
             object_id |-> rows[n].object_id,
             content_type_id |-> rows[n].content_type_id,
             action_flag |-> rows[n].action_flag,
             serialized_data |-> rows[n].serialized_data]]

\* get_action_flag_display(), models.ACTIONS
get_action_flag_display(action_flag) ==
    IF action_flag = ADDITION THEN "Add"
    ELSE IF action_flag = CHANGE THEN "Change" ELSE "Delete"

\* The rows of a query, newest first: order_by('-pk')
newest_first(q) == [n \in 1..Len(q) |-> q[Len(q) + 1 - n]]
\* q[:limit]
first(q, limit) == SubSeq(q, 1, IF Len(q) < limit THEN Len(q) ELSE limit)
\* group_by = ['revision_id']: one row for each revision, newest first
RECURSIVE group_by(_)
group_by(q) ==
    IF q = <<>> THEN <<>>
    ELSE <<Head(q)>> \o group_by(SelectSeq(Tail(q), LAMBDA row : row # Head(q)))
\* diff, lines 236-251: the subquery, as the sequence of the revision_id of
\* its rows.  topver is 0 for None, else the pk of the version; obj is <<>>
\* for None, else holds the object.
subq(table, obj, limit, topver) ==
    LET until(v) == topver = 0 \/ v.pk <= topver
        revision_ids(q) == [n \in 1..Len(q) |-> q[n].revision_id]
    IN  IF obj # <<>>
        THEN LET cts == {obj[1].content_type_id} \cup get_parent_list(obj[1].content_type_id)
                 scoped(v) == /\ until(v)
                              /\ v.object_id = obj[1].object_id
                              /\ v.content_type_id \in cts
             IN  first(revision_ids(newest_first(SelectSeq(table, scoped))), limit)
        ELSE first(group_by(revision_ids(newest_first(SelectSeq(table, until)))), limit)
\* The row v as often as the subquery has a row of its revision (INNER JOIN).
joined(v, dt) ==
    LET RECURSIVE copies(_)
        copies(n) == IF n = 0 THEN <<>>
                     ELSE (IF dt[n] = v.revision_id THEN <<v>> ELSE <<>>) \o copies(n - 1)
    IN  copies(Len(dt))
\* diff, lines 258-267: the master query, ordered by 'object_id',
\* 'content_type__id', '-pk' and joined to the subquery.
RECURSIVE versions_list(_, _, _)
versions_list(table, dt, i) ==
    IF i > Len(Logical) THEN <<>>
    ELSE LET of_object(v) == /\ v.object_id = Logical[i].object_id
                             /\ v.content_type_id = Logical[i].content_type_id
             q == newest_first(SelectSeq(table, of_object))
             RECURSIVE rows(_)
             rows(n) == IF n > Len(q) THEN <<>> ELSE joined(q[n], dt) \o rows(n + 1)
         IN  rows(1) \o versions_list(table, dt, i + 1)
\* diff, lines 284-300: prev_ver and vdiff['_type'] of the entry i of the list.
previous(list, i) ==
    LET v == list[i]
    IN  IF v.action_flag = CHANGE
        THEN IF i + 1 <= Len(list)
             THEN IF \/ v.object_id # list[i + 1].object_id
                     \/ v.content_type_id # list[i + 1].content_type_id
                  THEN [prev_ver |-> <<>>, _type |-> "Add or Change"]
                  ELSE [prev_ver |-> <<list[i + 1]>>,
                        _type |-> get_action_flag_display(v.action_flag)]
             \* IndexError: pass
             ELSE [prev_ver |-> <<>>, _type |-> get_action_flag_display(v.action_flag)]
        ELSE [prev_ver |-> <<>>, _type |-> get_action_flag_display(v.action_flag)]
\* diff, lines 268-302: the vdiff of every entry of the list, with the
\* prev_ver it was compared to.
vdiffs(list) ==
    [i \in 1..Len(list) |->
        LET found == previous(list, i)
        IN  [version |-> list[i], _type |-> found._type, prev_ver |-> found.prev_ver,
             fields |-> diff_vers(list[i], found.prev_ver, <<"id", "title">>, {})]]
\* diff, lines 265-307: the result, rdiff['changes'] for every revision of
\* the list; a vdiff without fields is left out (line 303).
diff(table, obj, limit, topver) ==
    LET list == versions_list(table, subq(table, obj, limit, topver), 1)
        all == vdiffs(list)
    IN  [rid \in {list[i].revision_id : i \in DOMAIN list} |->
            SelectSeq(all, LAMBDA vdiff : /\ vdiff.version.revision_id = rid
                                          /\ vdiff.fields # <<>>)]

\* One call of Version.objects.diff on a history.
Diff(history, obj, limit, topver) ==
    /\ applied.op = "none"
    /\ applied' = [op |-> "diff", table |-> Version(history), obj |-> obj,
                   limit |-> limit, topver |-> topver,
                   versions_list |-> versions_list(Version(history),
                                        subq(Version(history), obj, limit, topver), 1),
                   out |-> diff(Version(history), obj, limit, topver)]
    /\ UNCHANGED <<st, meta, pk, revisions, versions, meta_records, deleting, saving,
                   last, walk>>

\* The limits of the runs: 128 is the default.
Limits == {1, 2, 128}
NextDiff ==
    /\ applied.op = "none"
    /\ \E history \in Histories, limit \in Limits :
           \E obj \in {<<>>} \cup {<<Logical[i]>> : i \in DOMAIN Logical},
              topver \in {0, 2} :
               /\ topver <= Len(Version(history))
               /\ Diff(history, obj, limit, topver)
SpecDiff == Init /\ [][NextDiff]_vars

\* --------------------------------------- VersionManager.get_previous, get_next
\* None is <<>>, a Version v is <<v>>.
\* get_previous, lines 157-168: the rows of the same content type and
\* object_id with a smaller pk, ordered by '-pk'; the first, or None.
get_previous(table, version) ==
    LET matching(v) == /\ v.content_type_id = version.content_type_id
                       /\ v.object_id = version.object_id
                       /\ v.pk < version.pk
        versions_ == newest_first(SelectSeq(table, matching))
    IN  IF versions_ = <<>> THEN <<>> ELSE <<versions_[1]>>

\* get_next, lines 170-181: the rows of the same content type and object_id
\* with a greater pk, ordered by '-pk' as well; the first, or None.
get_next(table, version) ==
    LET matching(v) == /\ v.content_type_id = version.content_type_id
                       /\ v.object_id = version.object_id
                       /\ v.pk > version.pk
        versions_ == newest_first(SelectSeq(table, matching))
    IN  IF versions_ = <<>> THEN <<>> ELSE <<versions_[1]>>

\* One call of Version.objects.get_next on the row n of a history, and the
\* call of get_previous on what it returned.
GetNext(history, n) ==
    LET table == Version(history)
        out == get_next(table, table[n])
    IN  /\ applied' = [op |-> "get_next", table |-> table, version |-> table[n],
                       out |-> out,
                       back |-> IF out = <<>> THEN <<>> ELSE get_previous(table, out[1])]
        /\ UNCHANGED <<st, meta, pk, revisions, versions, meta_records, deleting,
                       saving, last, walk>>

NextGetNext ==
    /\ applied.op = "none"
    /\ \E history \in Histories :
           \E n \in 1..Len(Version(history)) : GetNext(history, n)
SpecGetNext == Init /\ [][NextGetNext]_vars

\* ------------------------------------------------------------------ claims
\* The operations that end a scope, and the ones that need an active scope.
EndOps == {"end", "__exit__", "create_on_success"}
ScopedOps == {"add", "set_user", "get_user", "set_comment", "get_comment",
              "add_meta", "invalidate", "end"}
CommitErrors == {NameError, ValueError, AssertionError, AttributeError}

\* C1: the store changes only in a scope-ending call that takes the depth of
\* its thread from 1 to 0; a scope-ending call made at depth 2 or more leaves
\* the store alone and changes nothing of the thread's state but the depth
\* (and the flag, when __exit__ or the decorator invalidated for a raised
\* error before ending).
C1_CommitOnlyAtOutermostEnd ==
    [][ LET c == last'.ctx
        IN  /\ db' # db =>
                  last'.op \in EndOps /\ st[c].depth = 1 /\ st'[c].depth = 0
            /\ last'.op \in EndOps /\ st[c].depth > 1 =>
                  /\ db' = db
                  /\ st'[c] = [st[c] EXCEPT !.depth = @ - 1,
                                            !.is_invalid = @ \/ last'.arg = "raised"]
      ]_vars

\* C1 witness: an end() at depth 2 of a valid scope with changed objects has
\* returned, and the store is still empty.
C1_Witness ==
    /\ last.op = "end" /\ last.depth = 2 /\ last.changed /\ ~last.invalid
    /\ st[last.ctx].depth = 1 /\ st[last.ctx].objects # {}
    /\ revisions = <<>>

\* C2: every Revision row of the store has at least one Version row.
C2_EveryRevisionHasAVersion ==
    \A r \in 1..Len(revisions) : \E v \in versions : v.revision = r

\* C3: an outermost end() that raises an error of the commit leaves the store
\* as it was before the call: no Revision, Version or metadata row of the
\* scope stays.
C3_FailedCommitLeavesNothing ==
    [][ last'.op \in EndOps /\ last'.err \in CommitErrors => db' = db ]_vars

\* C4: an outermost scope-ending call on a state whose flag is set, or whose
\* changed and dead sets are both empty, writes nothing to the store, and
\* end() returns without an error.
C4_InvalidOrEmptyWritesNothing ==
    [][ LET c == last'.ctx
        IN  last'.op \in EndOps /\ st[c].depth = 1
              /\ (st[c].is_invalid \/ (st[c].objects = {} /\ st[c].dead_objects = {}))
            => /\ db' = db
               /\ last'.op = "end" => last'.err = NONE
      ]_vars

\* C4 witness: end() has returned normally from the outermost level of an
\* invalidated scope that had changed objects, and no Revision exists.
C4_Witness ==
    /\ last.op = "end" /\ last.depth = 1 /\ last.invalid /\ last.changed
    /\ last.err = NONE /\ revisions = <<>>

\* C5: after a scope-ending call made at depth 1, however it ended, the
\* state of the thread is the default state.
C5_StateClearedAfterOutermostEnd ==
    last.op \in EndOps /\ last.depth = 1 => st[last.ctx] = clear

\* C5 witness: the commit of an outermost end() has raised, and the state is
\* the default one.
C5_Witness ==
    /\ last.op = "end" /\ last.depth = 1 /\ last.err \in CommitErrors
    /\ last.changed /\ st[last.ctx] = clear

\* C6: a scoped operation called at depth 0 raises RevisionManagementError
\* and changes neither the states of the threads nor the store; no depth is
\* ever negative; is_active() returns True exactly at a depth above 0.
C6_NotInScope ==
    [][ LET c == last'.ctx
        IN  /\ last'.op \in ScopedOps /\ st[c].depth = 0 =>
                  last'.err = RevisionManagementError /\ st' = st /\ db' = db
            /\ \A k \in Ctx : st'[k].depth >= 0
            /\ last'.op = "is_active" =>
                  last'.ret = (IF st[c].depth > 0 THEN "True" ELSE "False")
      ]_vars

\* C6 witness: add() was called outside every scope and raised.
C6_Witness ==
    /\ last.op = "add" /\ last.depth = 0 /\ last.err = RevisionManagementError
    /\ st[last.ctx] = clear

\* C7: an operation of one thread leaves the state of every other thread as
\* it was, and a Revision it creates carries the user and comment of its own
\* state and is created only when its own changed or dead set is not empty;
\* every Version written is of an object of its own sets.
C7_ThreadConfinement ==
    [][ LET c == last'.ctx
        IN  /\ \A k \in Ctx \ {c} : st'[k] = st[k]
            /\ revisions' # revisions =>
                  /\ revisions' = Append(revisions, [user |-> st[c].user,
                                                     comment |-> st[c].comment])
                  /\ st[c].objects \cup st[c].dead_objects # {}
            /\ \A v \in versions' \ versions :
                  v.object_id \in st[c].objects \cup st[c].dead_objects
      ]_vars

\* C7 witness: thread t1 has ended its outermost scope and a Revision was
\* created while thread t2 is inside a scope with its own changed object,
\* comment and metadata.
C7_Witness ==
    /\ last.op = "end" /\ last.ctx = "t1" /\ last.depth = 1 /\ Len(revisions) = 1
    /\ st["t1"] = clear
    /\ st["t2"].depth > 0 /\ st["t2"].objects = {"b"}
    /\ st["t2"].comment = "c1" /\ st["t2"].meta # <<>>

\* C8: __exit__ and the decorator, when the block raised: the store is not
\* written, the scope is ended (default state at depth 1; above it the depth
\* one less and the flag set) and the error that leaves is the block's own.
\* When the block returned: the flag is as the block left it, and a valid
\* outermost scope with changed objects is committed.
C8_RaisedBlockInvalidatesThenEnds ==
    [][ LET c == last'.ctx
        IN  last'.op \in {"__exit__", "create_on_success"} =>
            IF last'.arg = "raised"
            THEN /\ db' = db
                 /\ last'.err = BlockError
                 /\ st'[c] = IF st[c].depth = 1 THEN clear
                             ELSE [st[c] EXCEPT !.depth = @ - 1, !.is_invalid = TRUE]
            ELSE /\ st[c].depth > 1 => st'[c] = [st[c] EXCEPT !.depth = @ - 1]
                 /\ st[c].depth = 1 => st'[c] = clear
                 /\ st[c].depth = 1 /\ ~st[c].is_invalid /\ st[c].objects # {} =>
                        Len(revisions') = Len(revisions) + 1
      ]_vars

\* C8 witness: a with-block at depth 1 with changed objects, not invalidated
\* by the block itself, has raised; __exit__ has run, the block's error has
\* left it and no Revision exists.
C8_Witness ==
    /\ last.op = "__exit__" /\ last.arg = "raised" /\ last.depth = 1
    /\ last.changed /\ ~last.invalid /\ last.err = BlockError
    /\ st[last.ctx] = clear /\ revisions = <<>>

\* C9: when a valid outermost scope is ended, the Revision created holds, for
\* every instance whose delete() was called inside the scope, a Version
\* tagged Deletion with the payload and repr the pre-delete hook froze.
C9_DeletedObjectHasFrozenVersion ==
    [][ LET c == last'.ctx
        IN  last'.op \in EndOps /\ last'.arg # "raised"
              /\ st[c].depth = 1 /\ ~st[c].is_invalid
            => \A o \in deleting[c] :
                  \E v \in versions' \ versions :
                      /\ v.revision = Len(revisions')
                      /\ v.object_id = o
                      /\ v.action_flag = DELETION
                      /\ v.serialized_data = Serialize({o})
                      /\ v.object_repr = Repr(o)
      ]_vars

\* C10: add(o) in an active scope with o tagged Deletion puts o in the dead
\* set and not in the changed set, puts every object of o's follow-list that
\* is not dead in the changed set, and adds no other object.
C10_AddOfDeletedObject ==
    [][ LET c == last'.ctx
            o == last'.arg
        IN  last'.op = "add" /\ st[c].depth > 0 /\ meta[o].action = DELETION
            => /\ o \in st'[c].dead_objects
               /\ o \notin st'[c].objects
               /\ \A n \in Follow(o) \ st'[c].dead_objects : n \in st'[c].objects
               /\ st'[c].objects \subseteq st[c].objects \cup Follow(o)
      ]_vars

\* The objects reachable from object_set along the registered follow-lists,
\* object_set included.
RECURSIVE Reachable(_)
Reachable(object_set) ==
    LET more == object_set \cup UNION {Follow(o) : o \in object_set}
    IN  IF more = object_set THEN object_set ELSE Reachable(more)

\* C11: when a valid outermost scope is ended, the Revision created holds a
\* Version for every object reachable, along registered follow-lists, from an
\* object of the live changed set; the Version of an object that was reached
\* and not itself added is tagged Change, unless the object was tagged
\* Deletion.
C11_ReachableObjectsHaveVersions ==
    [][ LET c == last'.ctx
            live == st[c].objects \ st[c].dead_objects
        IN  last'.op \in EndOps /\ last'.arg # "raised"
              /\ st[c].depth = 1 /\ ~st[c].is_invalid /\ live # {}
            => \A r \in Reachable(live) :
                  \E v \in versions' \ versions :
                      /\ v.revision = Len(revisions')
                      /\ v.object_id = r
                      /\ v.action_flag \in
                            IF meta[r].action = DELETION THEN {DELETION}
                            ELSE IF r \in live THEN {meta[r].action, CHANGE}
                            ELSE {CHANGE}
      ]_vars

\* The follow-edges of a graph between instances, and the pairs joined by a
\* path of at least one edge.
FollowEdges(g) ==
    {e \in Node \X Node : \E i \in 1..Len(g.follow[e[1]]) : g.follow[e[1]][i] = e[2]}
RECURSIVE Closure(_)
Closure(E) ==
    LET step == E \cup {p \in Node \X Node :
                            \E m \in Node : <<p[1], m>> \in E /\ <<m, p[2]>> \in E}
    IN  IF step = E THEN E ELSE Closure(step)
FollowPaths(g) == Closure(FollowEdges(g))

\* The object graph of the call has a cycle through one of the objects the
\* call was given.
StartsOnCycle ==
    \E i \in 1..Len(walk.object_set) :
        LET o == walk.object_set[i]
        IN  \E n \in Node : /\ <<o, n>> \in FollowEdges(walk.graph)
                            /\ <<n, o>> \in FollowPaths(walk.graph)

\* C12: a call of follow_relationships that has begun ends, by returning or
\* by raising, whatever the graph, the object set, max_recursion, inclusive
\* and ancestors.
C12_FollowTerminates ==
    (walk.status = "running") ~> (walk.status \in {"returned", "raised"})

\* C12 witness: a call with no recursion limit given objects on a cycle of
\* the graph has ended.
C12_Witness ==
    /\ walk.status \in {"returned", "raised"}
    /\ walk.max_recursion = NO_LIMIT /\ ~walk.ancestors
    /\ StartsOnCycle

C14_OneSaveOneVersion ==
    [][ LET c == last'.ctx
        IN  \A e \in saving[c] :
              last'.op \in EndOps /\ last'.arg # "raised"
                /\ st[c].depth = 1 /\ ~st[c].is_invalid
                /\ saving[c] = {e} /\ Follow(e.obj) = {} /\ deleting[c] = {}
                /\ st[c].objects \subseteq {e.obj} /\ st[c].dead_objects = {}
              => /\ Len(revisions') = Len(revisions) + 1
                 /\ versions' \ versions =
                       {v \in versions' : /\ v.revision = Len(revisions')
                                          /\ v.object_id = e.obj
                                          /\ v.action_flag = IF e.created THEN ADDITION
                                                             ELSE CHANGE}
                 /\ Cardinality(versions' \ versions) = 1
      ]_vars

NonKey(registered_fields) == SelectSeq(registered_fields, LAMBDA f : ~primary_key(f))

\* C17: diff_vers(v, None) for a Version tagged Addition reports one tuple
\* for every registered field that is not the key, and no other, each with
\* the value stored in v as new value and None as old value.
C17_AdditionReportsStoredValues ==
    applied.op = "diff_vers" /\ applied.v2 = <<>> /\ applied.v1.action_flag = ADDITION =>
        LET fields == NonKey(applied.registered_fields)
        IN  applied.out = [i \in 1..Len(fields) |->
                              <<fields[i], applied.v1.serialized_data[fields[i]], PyNone>>]

\* C17, amended: the same, except that the new value of a foreign key whose
\* target has a Version in v's revision is the object_repr of that Version.
C17_AdditionReportsEveryField ==
    applied.op = "diff_vers" /\ applied.v2 = <<>> /\ applied.v1.action_flag = ADDITION =>
        LET fields == NonKey(applied.registered_fields)
            stored(f) == applied.v1.serialized_data[f]
        IN  applied.out = [i \in 1..Len(fields) |->
                              <<fields[i],
                                IF fields[i] = "owner" /\ stored("owner").kind = "int"
                                     /\ stored("owner").b \in applied.related
                                THEN object_repr(stored("owner").b)
                                ELSE stored(fields[i]),
                                PyNone>>]

\* C17 witness: the diff of an Addition Version with an empty text, a zero,
\* no datetime and a foreign key whose target is in the revision reported the
\* four fields.
C17_Witness ==
    /\ applied.op = "diff_vers" /\ applied.v2 = <<>> /\ applied.v1.action_flag = ADDITION
    /\ applied.v1.serialized_data.title = PyStr("")
    /\ applied.v1.serialized_data.count = PyInt(0)
    /\ applied.v1.serialized_data.when = PyNone
    /\ applied.v1.serialized_data.owner = PyInt(7) /\ applied.related = {7}
    /\ Len(applied.out) = 4

\* The fields in which the two versions of a diff_vers call differ.
Differing ==
    {f \in DOMAIN applied.v1.serialized_data :
        applied.v1.serialized_data[f] # applied.v2[1].serialized_data[f]}

Reported ==
    UNION {{applied.out[rid][k] : k \in DOMAIN applied.out[rid]} : rid \in DOMAIN applied.out}
\* The entry i of the fetched list has no entry of the same object after it.
NothingAfter(i) ==
    LET list == applied.versions_list
    IN  \/ i = Len(list)
        \/ /\ i < Len(list)
           /\ \/ list[i].object_id # list[i + 1].object_id
              \/ list[i].content_type_id # list[i + 1].content_type_id

\* C19: in the result of diff, a Version tagged Change that has no Version of
\* the same object directly after it in the fetched list (the next entry is
\* of another object, or it is the last entry) is reported as 'Add or Change'
\* and compared to no previous Version.
C19_NoPreviousIsAddOrChange ==
    applied.op = "diff" =>
        \A i \in DOMAIN applied.versions_list :
            applied.versions_list[i].action_flag = CHANGE /\ NothingAfter(i) =>
                \A vdiff \in Reported :
                    vdiff.version = applied.versions_list[i] =>
                        vdiff._type = "Add or Change" /\ vdiff.prev_ver = <<>>

\* C20: whenever diff compared a Version v tagged Change to a previous
\* Version p, p is the Version of the same object that immediately precedes
\* v in the whole Version table.
C20_PreviousIsImmediatePredecessor ==
    applied.op = "diff" =>
        \A vdiff \in Reported :
            vdiff.version.action_flag = CHANGE /\ vdiff.prev_ver # <<>> =>
                LET v == vdiff.version
                    p == vdiff.prev_ver[1]
                IN  /\ p.object_id = v.object_id
                    /\ p.content_type_id = v.content_type_id
                    /\ p.pk < v.pk
                    /\ \A n \in DOMAIN applied.table :
                           /\ applied.table[n].object_id = v.object_id
                           /\ applied.table[n].content_type_id = v.content_type_id
                           => ~(p.pk < n /\ n < v.pk)

\* C21: two calls of follow_relationships with the same arguments, the store
\* untouched in between, both return, and return the same result set.
C21_SecondCallReturnsTheSame ==
    walk.first # <<>> /\ walk.status \in {"returned", "raised"} =>
        /\ walk.first[1].status = "returned"
        /\ walk.status = "returned"
        /\ walk.result_set = walk.first[1].result_set

\* C22: an outermost end of a valid scope whose live set holds an object
\* tagged Deletion raises, writes no Version, and leaves the store as it was
\* before the call.
C22_DeletionAmongLiveAbortsCommit ==
    [][ LET c == last'.ctx
            live == st[c].objects \ st[c].dead_objects
        IN  last'.op \in EndOps /\ last'.arg # "raised"
              /\ st[c].depth = 1 /\ ~st[c].is_invalid
              /\ (\E o \in live : meta[o].action = DELETION)
            => /\ last'.err \in CommitErrors
               /\ versions' = versions
               /\ db' = db
      ]_vars

\* C24: when a valid outermost scope that changed a proxy instance is ended,
\* the Revision created holds a Version of the base-type object of the same
\* key and none of the proxy instance; no Version of the store is ever of a
\* proxy instance.
C24_ProxyIsRecordedAsItsBase ==
    [][ LET c == last'.ctx
            live == st[c].objects \ st[c].dead_objects
        IN  /\ \A v \in versions' : ~meta_proxy(v.object_id)
            /\ last'.op \in EndOps /\ last'.arg # "raised"
                 /\ st[c].depth = 1 /\ ~st[c].is_invalid
               => \A o \in live :
                     meta_proxy(o) => \E v \in versions' \ versions :
                                     /\ v.revision = Len(revisions')
                                     /\ v.object_id = parent_cls_get(o)
      ]_vars

\* The fragment of the given class in the payload of the call, deserialized.
FragmentOf(model) ==
    LET i == CHOOSE i \in DOMAIN applied.data : applied.data[i].model = model
    IN  deserialize(applied.data[i])
\* The payload of the call holds a fragment of each of the two classes.
Composite ==
    /\ applied.op = "get_object_version"
    /\ \A model \in {"parent", "child"} :
           \E i \in DOMAIN applied.data : applied.data[i].model = model

\* C25: the object rebuilt from a payload of a parent and a child fragment
\* has, for every attribute both fragments carry, the value of the child
\* fragment.
C25_ChildFragmentWins ==
    Composite =>
        \A a \in DOMAIN FragmentOf("parent").dict \cap DOMAIN FragmentOf("child").dict :
            applied.out.dict[a] = FragmentOf("child").dict[a]

\* C25, amended: the object rebuilt is the instance of the child class, with
\* the parent fragment written over it: every attribute the parent fragment
\* carries has the parent's value, every other attribute the child's, in
\* whichever order the payload holds the fragments.
C25_ParentFragmentWins ==
    Composite =>
        /\ applied.out.model = "child"
        /\ DOMAIN applied.out.dict = DOMAIN FragmentOf("child").dict
        /\ \A a \in DOMAIN applied.out.dict :
               applied.out.dict[a] =
                   IF a \in DOMAIN FragmentOf("parent").dict
                   THEN FragmentOf("parent").dict[a]
                   ELSE FragmentOf("child").dict[a]

\* C25 witness: a payload that holds the parent fragment before the child
\* fragment was rebuilt as a child with the parent's title and key.
C25_Witness ==
    /\ Composite
    /\ applied.data[1].model = "parent"
    /\ applied.data[1].fields.title = "x"
    /\ applied.out.model = "child"
    /\ applied.out.dict.title = "x"
    /\ applied.out.dict.id = applied.data[1].pk
    /\ applied.out.dict.extra = applied.data[2].fields.extra

\* The objects a call was given, and the objects at most d hops from them
\* along the follow-lists of the graph.
Starting == {walk.object_set[i] : i \in 1..Len(walk.object_set)}
RECURSIVE Within(_, _, _)
Within(g, S, d) ==
    IF d = 0 THEN S
    ELSE Within(g, S \cup {n \in Node : \E o \in S : <<o, n>> \in FollowEdges(g)}, d - 1)
\* The graphs in which every instance has a key and no proxy class, and every
\* relationship yields an instance or nothing.
PlainGraphs == {Chain, Cycle, SelfLoop, Shared}

\* C26: an inclusive call with max_recursion = d returns the set of the
\* objects at most d hops from the objects it was given.
C26_ResultIsEverythingWithinDistance ==
    /\ walk.status \in {"returned", "raised"}
    /\ walk.graph \in PlainGraphs
    /\ walk.inclusive /\ ~walk.ancestors /\ walk.max_recursion # NO_LIMIT
    => /\ walk.status = "returned"
       /\ walk.result_set = Within(walk.graph, Starting, walk.max_recursion)

\* C27: a call with inclusive = False returns a set that holds none of the
\* objects the call was given.
C27_NoStartingObjectInResult ==
    /\ walk.status \in {"returned", "raised"}
    /\ walk.graph \in PlainGraphs
    /\ ~walk.inclusive
    => /\ walk.status = "returned"
       /\ walk.result_set \cap Starting = {}

\* C30: once the invalidation flag of a thread's state is set, every step
\* that leaves the thread inside a scope (ending an inner scope, starting a
\* nested one, adding, saving, deleting, setting user, comment or metadata)
\* leaves the flag set, and the step that takes the thread out of its
\* outermost scope writes nothing to the store.
C30_InvalidationLastsUntilOutermostEnd ==
    [][ \A c \in Ctx :
            st[c].is_invalid =>
                IF st'[c].depth > 0 THEN st'[c].is_invalid ELSE db' = db
      ]_vars

\* C30 witness: a scope-ending call made at depth 2 on an invalidated state
\* has returned; the outer scope is still open with changed objects, and its
\* flag is still set.
C30_Witness ==
    /\ last.op \in EndOps /\ last.depth = 2 /\ last.invalid /\ last.err = NONE
    /\ st[last.ctx].depth = 1 /\ st[last.ctx].is_invalid
    /\ st[last.ctx].objects # {}

\* C31: get_next(v) is the Version of the same logical object with the
\* smallest pk above v's, or None when v has no later Version; and
\* get_previous of a Version that get_next returned is v.
LaterVersions ==
    {applied.table[n] : n \in {k \in DOMAIN applied.table :
        /\ applied.table[k].content_type_id = applied.version.content_type_id
        /\ applied.table[k].object_id = applied.version.object_id
        /\ applied.table[k].pk > applied.version.pk}}
C31_NextIsImmediateSuccessor ==
    applied.op = "get_next" =>
        /\ LaterVersions = {} => applied.out = <<>>
        /\ LaterVersions # {} =>
               /\ applied.out # <<>>
               /\ applied.out[1] \in LaterVersions
               /\ \A w \in LaterVersions : applied.out[1].pk <= w.pk
               /\ applied.back = <<applied.version>>
====
